---------------------------- MODULE Spec2Model ----------------------------
(***************************************************************************)
(* A model of rtfractal (src/src/main.rs, src/src/pixel.rs): the World of  *)
(* ScreenTransform objects driven by World::update, the hit-testing state  *)
(* machine ScreenTransform::mouse_input, the paint order of World::draw,   *)
(* and the pixel arithmetic of PixelGrid and Transform.                    *)
(*                                                                         *)
(* The program computes in f32.  A finite f32 is the record                *)
(* [s, m, e] of value (-1)^s * m * 2^e with 2^23 <= m < 2^24 (m < 2^23     *)
(* only at e = EMin, the subnormals; m = 0, e = EMin is zero).  e = ESpec  *)
(* marks the infinities (m = 0) and NaN (m = 1).  Every operation rounds   *)
(* to nearest, ties to even, as IEEE 754 binary32 does.                    *)
(***************************************************************************)
EXTENDS Integers, Sequences, FiniteSets, TLC

\* ------------------------------------------------------------------ f32

\* Exponent of the least significant bit of the smallest f32 (2^-149).
EMin == -149
\* Largest exponent of a finite f32's least significant bit (2^104 * (2^24 - 1)).
EMax == 104
\* Exponent marking infinity and NaN.
ESpec == 105

P2Tab == <<1, 2, 4, 8, 16, 32, 64, 128, 256, 512, 1024, 2048, 4096, 8192,
           16384, 32768, 65536, 131072, 262144, 524288, 1048576, 2097152,
           4194304, 8388608, 16777216, 33554432, 67108864, 134217728,
           268435456, 536870912, 1073741824>>

Pow2(n) == P2Tab[n + 1]

\* Number of significant bits of M, 0 <= M < 2^31, by halving the width.
BitLen1(M) == IF M >= 2 THEN 2 ELSE 1
BitLen2(M) == (IF M >= 4 THEN 2 ELSE 0) + BitLen1(IF M >= 4 THEN M \div 4 ELSE M)
BitLen4(M) == (IF M >= 16 THEN 4 ELSE 0) + BitLen2(IF M >= 16 THEN M \div 16 ELSE M)
BitLen8(M) == (IF M >= 256 THEN 8 ELSE 0) + BitLen4(IF M >= 256 THEN M \div 256 ELSE M)
BitLen16(M) == (IF M >= 65536 THEN 16 ELSE 0) + BitLen8(IF M >= 65536 THEN M \div 65536 ELSE M)
BitLen(M) == IF M = 0 THEN 0 ELSE BitLen16(M)

F32NaN == [s |-> 0, m |-> 1, e |-> ESpec]
F32Inf(sg) == [s |-> sg, m |-> 0, e |-> ESpec]
F32Zero(sg) == [s |-> sg, m |-> 0, e |-> EMin]

IsNaN(a) == a.e = ESpec /\ a.m # 0
IsInf(a) == a.e = ESpec /\ a.m = 0
IsZero(a) == a.e # ESpec /\ a.m = 0
IsFinite(a) == a.e # ESpec

\* Round to nearest, ties to even: the quotient q of a division by 2 * half
\* with remainder r (and more below it when st = 1), rounded.
RoundUp(q, r, half, st) ==
  IF r > half \/ (r = half /\ (st = 1 \/ q % 2 = 1)) THEN q + 1 ELSE q

\* The f32 (-1)^sg * q * 2^e for a rounded mantissa q <= 2^24: a carry out of
\* the mantissa moves to the exponent, an exponent too large is infinity.
PackRounded(sg, q, e) ==
  IF q = 0 THEN F32Zero(sg)
  ELSE IF q = 16777216
       THEN (IF e + 1 > EMax THEN F32Inf(sg) ELSE [s |-> sg, m |-> 8388608, e |-> e + 1])
  ELSE IF e > EMax THEN F32Inf(sg)
  ELSE [s |-> sg, m |-> q, e |-> e]

\* M * 2^E with its last `shift` bits rounded away (shift <= 0: none are).
RoundShift(sg, M, E, st, shift) ==
  IF shift <= 0
  THEN IF E + shift > EMax THEN F32Inf(sg)
       ELSE [s |-> sg, m |-> M * Pow2(0 - shift), e |-> E + shift]
  ELSE IF shift > 31 THEN F32Zero(sg)
  ELSE IF shift = 31 THEN PackRounded(sg, RoundUp(0, M, Pow2(30), st), E + shift)
  ELSE PackRounded(sg, RoundUp(M \div Pow2(shift), M % Pow2(shift), Pow2(shift - 1), st),
                   E + shift)

\* The number of bits to round away from an n-bit M at exponent E: down to
\* 24 bits, and more where the result is subnormal.
ShiftFor(n, E) == IF n - 24 >= EMin - E THEN n - 24 ELSE EMin - E

\* The f32 nearest to (-1)^sg * (M + f) * 2^E, where 0 <= M < 2^31 and
\* 0 <= f < 1 with f # 0 exactly when st = 1 (ties to even; overflow to
\* infinity; gradual underflow).  With st = 1 the caller gives M >= 2^25.
RoundPack(sg, M, E, st) ==
  IF M = 0 THEN F32Zero(sg) ELSE RoundShift(sg, M, E, st, ShiftFor(BitLen(M), E))

\* An integer |n| < 2^31 as f32 (`n as f32`).
F32FromInt(n) == RoundPack(IF n < 0 THEN 1 ELSE 0, IF n < 0 THEN 0 - n ELSE n, 0, 0)

\* A nonzero finite f32 with its mantissa shifted up to 24 bits (the exponent
\* may fall below EMin: an intermediate form, not a stored value).
NormBy(a, k) == [s |-> a.s, m |-> a.m * Pow2(k), e |-> a.e - k]
NormM(a) == IF a.m >= 8388608 THEN a ELSE NormBy(a, 24 - BitLen(a.m))

F32Neg(a) == IF IsNaN(a) THEN a ELSE [a EXCEPT !.s = 1 - a.s]

SignXor(a, b) == IF a.s = b.s THEN 0 ELSE 1

\* The product of two 24-bit mantissas from its 12-bit limbs: high * 2^24 +
\* lowrem, cut to 30 bits and a sticky bit.
MulRound(sg, E, high, lowrem) ==
  RoundPack(sg, high * 64 + (lowrem \div 262144), E,
            IF lowrem % 262144 # 0 THEN 1 ELSE 0)
MulCarry(sg, E, hi, low) == MulRound(sg, E, hi + (low \div 16777216), low % 16777216)
MulSum(sg, E, H, Mid, L) ==
  MulCarry(sg, E, H + (Mid \div 4096), L + (Mid % 4096) * 4096)
MulLimbs(sg, E, a1, a0, b1, b0) == MulSum(sg, E, a1 * b1, a1 * b0 + a0 * b1, a0 * b0)
MulNorm(sg, x, y) ==
  MulLimbs(sg, x.e + y.e + 18, x.m \div 4096, x.m % 4096, y.m \div 4096, y.m % 4096)

\* a * b
F32Mul(a, b) ==
  IF IsNaN(a) \/ IsNaN(b) THEN F32NaN
  ELSE IF IsInf(a) \/ IsInf(b)
       THEN IF IsZero(a) \/ IsZero(b) THEN F32NaN ELSE F32Inf(SignXor(a, b))
  ELSE IF IsZero(a) \/ IsZero(b) THEN F32Zero(SignXor(a, b))
  ELSE MulNorm(SignXor(a, b), NormM(a), NormM(b))

\* Long division in k steps of 7 bits: the quotient so far Q, the running
\* numerator n, the divisor d.  Gives <<quotient, last remainder * 128>>.
RECURSIVE LongDiv(_, _, _, _)
LongDiv(Q, n, d, k) ==
  IF k = 0 THEN <<Q, n>>
  ELSE LongDiv(Q * 128 + (n \div d), (n % d) * 128, d, k - 1)

DivPack(sg, E, qr) == RoundPack(sg, qr[1], E, IF qr[2] # 0 THEN 1 ELSE 0)
DivNorm(sg, x, y) == DivPack(sg, x.e - y.e - 28, LongDiv(0, x.m * 128, y.m, 4))

\* a / b
F32Div(a, b) ==
  IF IsNaN(a) \/ IsNaN(b) THEN F32NaN
  ELSE IF IsInf(a)
       THEN IF IsInf(b) THEN F32NaN ELSE F32Inf(SignXor(a, b))
  ELSE IF IsInf(b) THEN F32Zero(SignXor(a, b))
  ELSE IF IsZero(b)
       THEN IF IsZero(a) THEN F32NaN ELSE F32Inf(SignXor(a, b))
  ELSE IF IsZero(a) THEN F32Zero(SignXor(a, b))
  ELSE DivNorm(SignXor(a, b), NormM(a), NormM(b))

\* |a| < |b| for a, b not NaN.
MagLt(a, b) == a.e < b.e \/ (a.e = b.e /\ a.m < b.m)

\* The sum of mantissas A and B at exponent E (B with bits below it when
\* st = 1), or their difference when the signs differ.
AddPack(sg, E, M, st) == IF M = 0 THEN F32Zero(0) ELSE RoundPack(sg, M, E, st)
AddSum(sg, E, A, B, st, same) == AddPack(sg, E, IF same THEN A + B ELSE A - B - st, st)
AddShift(sg, E, A, S, d, same) ==
  IF d > 30 THEN AddSum(sg, E, A, 0, 1, same)
  ELSE AddSum(sg, E, A, S \div Pow2(d), IF S % Pow2(d) # 0 THEN 1 ELSE 0, same)
AddMag(big, small) ==
  AddShift(big.s, big.e - 6, big.m * 64, small.m * 64, big.e - small.e, big.s = small.s)

\* a + b
F32Add(a, b) ==
  IF IsNaN(a) \/ IsNaN(b) THEN F32NaN
  ELSE IF IsInf(a)
       THEN IF IsInf(b) /\ a.s # b.s THEN F32NaN ELSE a
  ELSE IF IsInf(b) THEN b
  ELSE IF IsZero(a)
       THEN IF IsZero(b) THEN F32Zero(IF a.s = 1 /\ b.s = 1 THEN 1 ELSE 0) ELSE b
  ELSE IF IsZero(b) THEN a
  ELSE IF MagLt(a, b) THEN AddMag(b, a) ELSE AddMag(a, b)

\* a - b
F32Sub(a, b) == F32Add(a, F32Neg(b))

\* a < b, a <= b, a > b, a >= b, a == b: all false when either is NaN.
F32Lt(a, b) ==
  /\ ~IsNaN(a) /\ ~IsNaN(b)
  /\ ~(IsZero(a) /\ IsZero(b))
  /\ IF a.s # b.s THEN a.s = 1
     ELSE IF a.s = 0 THEN MagLt(a, b) ELSE MagLt(b, a)

F32Eq(a, b) ==
  /\ ~IsNaN(a) /\ ~IsNaN(b)
  /\ (IsZero(a) /\ IsZero(b)) \/ a = b

F32Le(a, b) == F32Lt(a, b) \/ F32Eq(a, b)
F32Gt(a, b) == F32Lt(b, a)
F32Ge(a, b) == F32Le(b, a)

\* f32::max, f32::min: the other operand when one is NaN.
F32Max(a, b) == IF IsNaN(a) THEN b ELSE IF IsNaN(b) THEN a ELSE IF F32Lt(a, b) THEN b ELSE a
F32Min(a, b) == IF IsNaN(a) THEN b ELSE IF IsNaN(b) THEN a ELSE IF F32Lt(b, a) THEN b ELSE a

\* f32::clamp: NaN stays NaN.
F32Clamp(x, lo, hi) == IF F32Lt(x, lo) THEN lo ELSE IF F32Gt(x, hi) THEN hi ELSE x

\* The bitwise square root of N: at step i the next two bits of N are brought
\* down to the remainder r, and the root gains a bit.
RECURSIVE SqrtBits(_, _, _, _)
RECURSIVE SqrtStep(_, _, _, _)
SqrtStep(N, i, root, r) ==
  IF r >= root * 4 + 1 THEN SqrtBits(N, i - 1, root * 2 + 1, r - (root * 4 + 1))
  ELSE SqrtBits(N, i - 1, root * 2, r)
SqrtBits(N, i, root, rem) ==
  IF i < -13 THEN <<root, rem>>
  ELSE SqrtStep(N, i, root, rem * 4 + (IF i >= 0 THEN (N \div Pow2(2 * i)) % 4 ELSE 0))

SqrtPack(rr, E) == RoundPack(0, rr[1], E, IF rr[2] # 0 THEN 1 ELSE 0)
SqrtNorm(x) ==
  IF x.e % 2 = 1 THEN SqrtPack(SqrtBits(x.m * 2, 12, 0, 0), ((x.e - 1) \div 2) - 13)
  ELSE SqrtPack(SqrtBits(x.m, 12, 0, 0), (x.e \div 2) - 13)

\* f32::sqrt, correctly rounded.
F32Sqrt(a) ==
  IF IsNaN(a) THEN F32NaN
  ELSE IF IsZero(a) THEN a
  ELSE IF a.s = 1 THEN F32NaN
  ELSE IF IsInf(a) THEN a
  ELSE SqrtNorm(NormM(a))

\* `x as uN` / `x as iN` for a target range lo..hi within TLC's integers:
\* truncation toward zero, saturating, NaN to 0.
ClampInt(v, lo, hi) == IF v < lo THEN lo ELSE IF v > hi THEN hi ELSE v
TruncMag(a) ==
  IF a.e >= 0 THEN (IF a.e > 6 THEN 1073741824 ELSE a.m * Pow2(a.e))
  ELSE (IF 0 - a.e > 30 THEN 0 ELSE a.m \div Pow2(0 - a.e))
F32ToInt(a, lo, hi) ==
  IF IsNaN(a) THEN 0
  ELSE IF IsInf(a) THEN (IF a.s = 1 THEN lo ELSE hi)
  ELSE ClampInt(IF a.s = 1 THEN 0 - TruncMag(a) ELSE TruncMag(a), lo, hi)

\* ------------------------------------------------------------ constants

WIDTH == 1000
HEIGHT == 1000

\* Option: None of an enum is the string "None"; None and Some(x) of any other
\* type are the sequences <<>> and <<x>>.
None == "None"
NoneV == <<>>
Some(x) == <<x>>

\* A decimal f32 literal n/d (n and d exact in f32): the nearest f32, which
\* is what a correctly rounded division of the two gives.
Lit(n, d) == F32Div(F32FromInt(n), F32FromInt(d))

\* The integers of the program as f32: the literals n.0 and the casts
\* `n as f32` of pixel coordinates, converted once.
IntTab == [n \in -1000..1000 |-> F32FromInt(n)]
F(n) == IntTab[n]

\* The literals 0.1, 1.0, 0.05, 0.495 and 0.6.
lit_0_1 == Lit(1, 10)
lit_1_0 == Lit(1, 1)
lit_0_05 == Lit(5, 100)
lit_0_495 == Lit(495, 1000)
lit_0_6 == Lit(6, 10)

\* std::f32::consts::PI
PI == [s |-> 0, m |-> 13176795, e |-> -22]

\* WIDTH as f32, HEIGHT as f32
width == F(WIDTH)
height == F(HEIGHT)

\* ----------------------------------------------------- libm: atan, sin, cos
\* f32::atan, f32::sin and f32::cos are the platform's libm (atanf, sinf,
\* cosf).  They are tabulated for every argument the inputs of this model can
\* produce: <<argument, atan>> and <<angle, sin, cos>>, each f32 as s, m, e.
\* An argument outside the tables has no value (the CHOOSE fails).

AtanTab ==
  { <<0, 8388608, -23,  0, 13176795, -24>>,
    <<0, 9320676, -23,  0, 14058992, -24>>,
    <<0, 10485760, -22,  0, 9984876, -23>>,
    <<0, 13421773, -24,  0, 11320275, -24>>,
    <<0, 10485760, -23,  0, 15033315, -24>>,
    <<1, 0, 105,  1, 13176795, -23>>,
    <<0, 0, -149,  0, 0, -149>>,
    <<1, 8388608, -23,  1, 13176795, -24>>,
    <<0, 0, 105,  0, 13176795, -23>>,
    <<0, 9942054, -23,  0, 14595204, -24>>,
    <<0, 14071213, -24,  0, 11708866, -24>>,
    <<0, 13550828, -24,  0, 11398672, -24>>,
    <<0, 12427567, -26,  0, 12288359, -26>>,
    <<0, 15096132, -24,  0, 12292739, -24>>,
    <<0, 8388608, -22,  0, 9287437, -23>>,
    <<1, 8388608, -22,  1, 9287437, -23>>,
    <<1, 0, -149,  1, 0, -149>>,
    <<0, 11534336, -24,  0, 10104705, -24>>,
    <<0, 12201612, -23,  0, 16248885, -24>>,
    <<0, 8967133, -24,  0, 16470253, -25>>,
    <<0, 11614996, -23,  0, 15859692, -24>>,
    <<0, 12116878, -24,  0, 10493898, -24>>,
    <<0, 16460665, -25,  0, 15303237, -25>>,
    <<0, 12383183, -23,  0, 16364269, -24>>,
    <<0, 11365211, -24,  0, 9989320, -24>>,
    <<0, 10886646, -24,  0, 9656928, -24>>,
    <<1, 15252015, -26,  1, 14997261, -26>>,
    <<1, 10485760, -26,  1, 10401655, -26>>,
    <<0, 15252015, -26,  0, 14997261, -26>>,
    <<0, 10485760, -26,  0, 10401655, -26>>,
    <<0, 10256895, -23,  0, 14852286, -24>>,
    <<0, 13721257, -24,  0, 11501303, -24>> }

SinCosTab ==
  { <<0, 0, -149,  0, 0, -149,  0, 8388608, -23>>,
    <<1, 13421773, -28,  1, 13416181, -28,  0, 16756249, -24>>,
    <<0, 13421771, -28,  0, 13416179, -28,  0, 16756249, -24>>,
    <<1, 13176795, -24,  1, 11863283, -24,  0, 11863283, -24>>,
    <<1, 14058992, -24,  1, 12470406, -24,  0, 11223366, -24>>,
    <<1, 9984876, -23,  1, 15577254, -24,  0, 12461802, -25>>,
    <<1, 11320275, -24,  1, 10480644, -24,  0, 13100804, -24>>,
    <<1, 15033315, -24,  1, 13100805, -24,  0, 10480644, -24>>,
    <<0, 9882596, -22,  0, 11863283, -24,  1, 11863283, -24>>,
    <<0, 9882596, -21,  1, 8388608, -23,  0, 13426222, -50>>,
    <<0, 13176795, -22,  1, 12303662, -47,  1, 8388608, -23>>,
    <<0, 13176795, -24,  0, 11863283, -24,  0, 11863283, -24>>,
    <<0, 16470994, -22,  1, 11863285, -24,  1, 11863281, -24>>,
    <<0, 9662047, -22,  0, 12470405, -24,  1, 11223367, -24>>,
    <<0, 13176795, -23,  0, 8388608, -23,  1, 12303662, -48>>,
    <<0, 9527994, -22,  0, 12822683, -24,  1, 10819140, -24>>,
    <<1, 11708866, -24,  1, 10781244, -24,  0, 12854561, -24>>,
    <<1, 11398672, -24,  1, 10541747, -24,  0, 13051687, -24>>,
    <<0, 12408773, -22,  0, 12219791, -26,  1, 16496735, -24>>,
    <<1, 12292739, -24,  1, 11221985, -24,  0, 12471649, -24>>,
    <<0, 8533076, -22,  0, 15005999, -24,  1, 15005996, -25>>,
    <<0, 9287437, -23,  0, 15005999, -24,  0, 15005997, -25>>,
    <<1, 14595204, -24,  1, 12822684, -24,  0, 10819139, -24>>,
    <<1, 10104705, -24,  1, 9504776, -24,  0, 13825129, -24>>,
    <<1, 16248885, -24,  1, 13825130, -24,  0, 9504776, -24>>,
    <<0, 10249578, -22,  0, 10781245, -24,  1, 12854561, -24>>,
    <<0, 11118013, -22,  0, 15816797, -25,  1, 14796358, -24>>,
    <<0, 9211872, -22,  0, 13600940, -24,  1, 9822902, -24>>,
    <<0, 10553320, -22,  0, 9822902, -24,  1, 13600940, -24>>,
    <<0, 10327127, -22,  0, 10541746, -24,  1, 13051688, -24>>,
    <<0, 11263890, -22,  0, 14778211, -25,  1, 15062407, -24>>,
    <<0, 9085728, -22,  0, 13890169, -24,  1, 9409473, -24>>,
    <<0, 10679465, -22,  0, 9409469, -24,  1, 13890172, -24>>,
    <<0, 16368714, -23,  0, 15577254, -24,  1, 12461805, -25>>,
    <<1, 12288359, -26,  1, 12219803, -26,  0, 16496735, -24>>,
    <<1, 16470253, -25,  1, 15816797, -25,  0, 14796358, -24>>,
    <<1, 15303237, -25,  1, 14778211, -25,  0, 15062407, -24>>,
    <<1, 9656928, -24,  1, 9132448, -24,  0, 14073854, -24>>,
    <<0, 14997261, -26,  0, 14872741, -26,  0, 16360015, -24>>,
    <<0, 10401655, -26,  0, 10360057, -26,  0, 16576091, -24>>,
    <<1, 14997261, -26,  1, 14872741, -26,  0, 16360015, -24>>,
    <<1, 10401655, -26,  1, 10360057, -26,  0, 16576091, -24>>,
    <<0, 10103610, -22,  0, 11221984, -24,  1, 12471650, -24>>,
    <<0, 10762563, -22,  0, 9132447, -24,  1, 14073855, -24>>,
    <<0, 9463724, -22,  0, 12986954, -24,  1, 10621393, -24>>,
    <<0, 10301469, -22,  0, 10621390, -24,  1, 12986957, -24>>,
    <<1, 0, -149,  1, 0, -149,  0, 8388608, -23>>,
    <<0, 13421773, -28,  0, 13416181, -28,  0, 16756249, -24>>,
    <<1, 13421771, -28,  1, 13416179, -28,  0, 16756249, -24>>,
    <<0, 14058992, -24,  0, 12470406, -24,  0, 11223366, -24>>,
    <<0, 9984876, -23,  0, 15577254, -24,  0, 12461802, -25>>,
    <<0, 11320275, -24,  0, 10480644, -24,  0, 13100804, -24>>,
    <<0, 15033315, -24,  0, 13100805, -24,  0, 10480644, -24>>,
    <<1, 9882596, -22,  1, 11863283, -24,  1, 11863283, -24>>,
    <<1, 9882596, -21,  0, 8388608, -23,  0, 13426222, -50>>,
    <<1, 13176795, -22,  0, 12303662, -47,  1, 8388608, -23>>,
    <<1, 16470994, -22,  0, 11863285, -24,  1, 11863281, -24>>,
    <<1, 9662047, -22,  1, 12470405, -24,  1, 11223367, -24>>,
    <<1, 13176795, -23,  1, 8388608, -23,  1, 12303662, -48>>,
    <<1, 9527994, -22,  1, 12822683, -24,  1, 10819140, -24>>,
    <<0, 11708866, -24,  0, 10781244, -24,  0, 12854561, -24>>,
    <<0, 11398672, -24,  0, 10541747, -24,  0, 13051687, -24>>,
    <<1, 12408773, -22,  1, 12219791, -26,  1, 16496735, -24>>,
    <<0, 12292739, -24,  0, 11221985, -24,  0, 12471649, -24>>,
    <<1, 8533076, -22,  1, 15005999, -24,  1, 15005996, -25>>,
    <<1, 9287437, -23,  1, 15005999, -24,  0, 15005997, -25>>,
    <<0, 14595204, -24,  0, 12822684, -24,  0, 10819139, -24>>,
    <<0, 10104705, -24,  0, 9504776, -24,  0, 13825129, -24>>,
    <<0, 16248885, -24,  0, 13825130, -24,  0, 9504776, -24>>,
    <<1, 10249578, -22,  1, 10781245, -24,  1, 12854561, -24>>,
    <<1, 11118013, -22,  1, 15816797, -25,  1, 14796358, -24>>,
    <<1, 9211872, -22,  1, 13600940, -24,  1, 9822902, -24>>,
    <<1, 10553320, -22,  1, 9822902, -24,  1, 13600940, -24>>,
    <<1, 10327127, -22,  1, 10541746, -24,  1, 13051688, -24>>,
    <<1, 11263890, -22,  1, 14778211, -25,  1, 15062407, -24>>,
    <<1, 9085728, -22,  1, 13890169, -24,  1, 9409473, -24>>,
    <<1, 10679465, -22,  1, 9409469, -24,  1, 13890172, -24>>,
    <<1, 16368714, -23,  1, 15577254, -24,  1, 12461805, -25>>,
    <<0, 12288359, -26,  0, 12219803, -26,  0, 16496735, -24>>,
    <<0, 16470253, -25,  0, 15816797, -25,  0, 14796358, -24>>,
    <<0, 15303237, -25,  0, 14778211, -25,  0, 15062407, -24>>,
    <<0, 9656928, -24,  0, 9132448, -24,  0, 14073854, -24>>,
    <<1, 10103610, -22,  1, 11221984, -24,  1, 12471650, -24>>,
    <<1, 10762563, -22,  1, 9132447, -24,  1, 14073855, -24>>,
    <<1, 9463724, -22,  1, 12986954, -24,  1, 10621393, -24>>,
    <<1, 10301469, -22,  1, 10621390, -24,  1, 12986957, -24>> }

\* The tables as functions of the argument <<s, m, e>>.
AtanFn == [k \in {<<p[1], p[2], p[3]>> : p \in AtanTab} |->
             CHOOSE p \in AtanTab : <<p[1], p[2], p[3]>> = k]
SinCosFn == [k \in {<<p[1], p[2], p[3]>> : p \in SinCosTab} |->
               CHOOSE p \in SinCosTab : <<p[1], p[2], p[3]>> = k]

F32Atan(a) ==
  IF IsNaN(a) THEN F32NaN
  ELSE LET p == AtanFn[<<a.s, a.m, a.e>>]
       IN  [s |-> p[4], m |-> p[5], e |-> p[6]]

F32Sin(a) ==
  IF IsNaN(a) \/ IsInf(a) THEN F32NaN
  ELSE LET p == SinCosFn[<<a.s, a.m, a.e>>]
       IN  [s |-> p[4], m |-> p[5], e |-> p[6]]

F32Cos(a) ==
  IF IsNaN(a) \/ IsInf(a) THEN F32NaN
  ELSE LET p == SinCosFn[<<a.s, a.m, a.e>>]
       IN  [s |-> p[7], m |-> p[8], e |-> p[9]]

\* ------------------------------------------------------------ pixel::Vec2

Vec2New(x, y) == [x |-> x, y |-> y]

Vec2Sub(a, b) == Vec2New(F32Sub(a.x, b.x), F32Sub(a.y, b.y))
Vec2Add(a, b) == Vec2New(F32Add(a.x, b.x), F32Add(a.y, b.y))
Vec2MulF(a, k) == Vec2New(F32Mul(a.x, k), F32Mul(a.y, k))
Vec2DivF(a, k) == Vec2New(F32Div(a.x, k), F32Div(a.y, k))

rotate(v, angle) ==
  LET sin == F32Sin(angle)
      cos == F32Cos(angle)
  IN  Vec2New(F32Sub(F32Mul(v.x, cos), F32Mul(v.y, sin)),
              F32Add(F32Mul(v.y, cos), F32Mul(v.x, sin)))

magnitude(v) == F32Sqrt(F32Add(F32Mul(v.x, v.x), F32Mul(v.y, v.y)))

\* ------------------------------------------------------- pixel::Transform

apply(t, point) ==
  LET p1 == Vec2MulF(point, t.scale)
      p2 == rotate(p1, t.rotation)
  IN  Vec2Add(p2, t.position)

\* apply_inverse without the negation of the angle: C10_Inverse fails with it.
apply_inverse_same_angle(t, point) ==
  LET p1 == Vec2Sub(point, t.position)
      p2 == rotate(p1, t.rotation)
  IN  Vec2DivF(p2, t.scale)

apply_inverse(t, point) ==
  LET p1 == Vec2Sub(point, t.position)
      p2 == rotate(p1, F32Neg(t.rotation))
  IN  Vec2DivF(p2, t.scale)

\* ------------------------------------------------------- pixel::PixelGrid

\* The byte buffer behind a PixelGrid, WIDTH * HEIGHT * 4 bytes: every byte
\* holds fill until it is written; written maps each written index to its byte.
BufLen == WIDTH * HEIGHT * 4
GridNew(fill) == [fill |-> fill, clear |-> FALSE, written |-> <<>>]

\* The colours of main.rs 66 and 68.
Green == <<35, 169, 80>>
Grey == <<227, 227, 227>>

\* Byte i of main's clear_buffer: green strictly inside the middle fifth of
\* the rows and columns, grey elsewhere, the fourth byte of a pixel 0xff.
clear_buffer_byte(i) ==
  IF i % 4 = 3 THEN 255
  ELSE IF /\ (i \div 4) % WIDTH > (WIDTH * 4) \div 10
          /\ (i \div 4) % WIDTH < (WIDTH * 6) \div 10
          /\ (i \div 4) \div WIDTH > (HEIGHT * 4) \div 10
          /\ (i \div 4) \div WIDTH < (HEIGHT * 6) \div 10
       THEN Green[(i % 4) + 1]
       ELSE Grey[(i % 4) + 1]

\* The grid over a frame that is a copy of clear_buffer
\* (`frame.copy_from_slice(&clear_buffer[..])`, `PixelGrid(frame)`).
GridClear == [fill |-> Grey[1], clear |-> TRUE, written |-> <<>>]

GridGet(g, i) ==
  IF i \in DOMAIN g.written THEN g.written[i]
  ELSE IF g.clear THEN clear_buffer_byte(i) ELSE g.fill
GridSet(g, i, v) == [g EXCEPT !.written = (i :> v) @@ @]

\* `as u32` of a value the clamp has already brought into 0..WIDTH-1: the
\* cast truncates toward zero, and its saturation at 2^32 - 1 is out of reach.
IntCap == 2147483647

\* pixel_index with the clamp's upper bounds one too large: C8_Clamp fails
\* with it.
pixel_index_wide(point) ==
  LET x == F32ToInt(F32Clamp(point.x, F(0), F(WIDTH)), 0, IntCap)
      y == F32ToInt(F32Clamp(point.y, F(0), F(HEIGHT)), 0, IntCap)
  IN  (x + (y * WIDTH)) * 4

\* The index i of set_pixel and set_pixel_transformed.
pixel_index(point) ==
  LET x == F32ToInt(F32Clamp(point.x, F(0), F(WIDTH - 1)), 0, IntCap)
      y == F32ToInt(F32Clamp(point.y, F(0), F(HEIGHT - 1)), 0, IntCap)
  IN  (x + (y * WIDTH)) * 4

\* PixelGrid::set_pixel.  A slice range that ends beyond the buffer panics.
set_pixel(g, point, pixel) ==
  LET i == pixel_index(point)
  IN  IF i + 3 > BufLen THEN [grid |-> g, panicked |-> TRUE]
      ELSE [grid |-> GridSet(GridSet(GridSet(g, i, pixel[1]),
                                     i + 1, pixel[2]), i + 2, pixel[3]),
            panicked |-> FALSE]

\* blend with the opacity divided by 256: C9_BlendIdentity fails with it.
blend_256(d, s, a) ==
  LET alpha == F32Div(F(a), F(256))
  IN  F32ToInt(F32Mul(F32Add(F32Mul(F32Div(F(d), F(255)), F32Sub(F(1), alpha)),
                             F32Mul(F32Div(F(s), F(255)), alpha)),
                      F(255)), 0, 255)

\* One channel of set_pixel_transformed: destination byte d, source byte s,
\* transform.alpha a; `as u8` truncates and saturates.
blend(d, s, a) ==
  LET alpha == F32Div(F(a), F(255))
  IN  F32ToInt(F32Mul(F32Add(F32Mul(F32Div(F(d), F(255)), F32Sub(F(1), alpha)),
                             F32Mul(F32Div(F(s), F(255)), alpha)),
                      F(255)), 0, 255)

\* PixelGrid::set_pixel_transformed.  Indexing beyond the buffer panics.
set_pixel_transformed(g, point, t, pixel) ==
  LET i == pixel_index(apply(t, point))
  IN  IF i + 2 >= BufLen THEN [grid |-> g, panicked |-> TRUE]
      ELSE [grid |-> GridSet(GridSet(GridSet(g,
                       i, blend(GridGet(g, i), pixel[1], t.alpha)),
                       i + 1, blend(GridGet(g, i + 1), pixel[2], t.alpha)),
                       i + 2, blend(GridGet(g, i + 2), pixel[3], t.alpha)),
            panicked |-> FALSE]

\* ------------------------------------------------- main::ScreenTransform

\* The f32 constants of mouse_input, as the source writes them.
half_w == F32Div(width, F(2))
half_h == F32Div(height, F(2))
neg_half_w == F32Div(F32Neg(width), F(2))
neg_half_h == F32Div(F32Neg(height), F(2))

\* `(pos.x / pos.y).atan()` turned into the Rotate handle's angle.
rotate_angle(d) ==
  IF F32Ge(d.y, F32Zero(0))
  THEN F32Add(F32Neg(F32Atan(F32Div(d.x, d.y))), PI)
  ELSE F32Neg(F32Atan(F32Div(d.x, d.y)))

\* The scale a Scale drag sets, before the clamp.
drag_scale(d) ==
  F32Div(F32Div(F32Mul(magnitude(d), width), height), F(540))

\* clamp_scale without its lower bound: C7_ScaleRange fails with it.
clamp_scale_no_floor(sc) == F32Min(sc, lit_1_0)

\* `.max(0.1).min(1.0)`
clamp_scale(sc) == F32Min(F32Max(sc, lit_0_1), lit_1_0)

\* The branch of mouse_input taken while a handle is grabbed.
\* mouse_input_grabbing without the drag and without the release:
\* C4_TranslateDrag fails with it.
mouse_input_grabbing_inert(self, pos, mouse_state) ==
  [obj |-> [self EXCEPT !.hovering = None], ret |-> TRUE]

mouse_input_grabbing(self, pos, mouse_state) ==
  LET t == self.transform
      t1 == CASE self.grabbing = "Rotate" ->
                   [t EXCEPT !.rotation = rotate_angle(Vec2Sub(pos, t.position))]
              [] self.grabbing = "Translate" ->
                   [t EXCEPT !.position = pos]
              [] self.grabbing = "Scale" ->
                   [t EXCEPT !.scale =
                      clamp_scale(drag_scale(Vec2Sub(pos, t.position)))]
              [] OTHER -> t
      g1 == IF mouse_state = "Released" THEN None ELSE self.grabbing
  IN  [obj |-> [self EXCEPT !.hovering = None, !.transform = t1, !.grabbing = g1],
       ret |-> TRUE]

\* The canvas-bounds test.
out_of_canvas(local_pos) ==
  \/ F32Lt(local_pos.x, neg_half_w) \/ F32Gt(local_pos.x, half_w)
  \/ F32Lt(local_pos.y, neg_half_h) \/ F32Gt(local_pos.y, half_h)

\* in_translate_zone reaching over the whole height of the canvas:
\* C15_ZonesDisjoint fails with it.
in_translate_zone_tall(lp, off) ==
  /\ F32Gt(lp.x, F(-65))
  /\ F32Lt(lp.x, F(65))
  /\ F32Gt(lp.y, neg_half_h)
  /\ F32Lt(lp.y, half_h)

\* The four hit rectangles, in local space; off is 15.0 / self.transform.scale.
in_rotate_zone(lp, off) ==
  /\ F32Gt(lp.x, F(-85))
  /\ F32Lt(lp.x, F(85))
  /\ F32Gt(lp.y, F32Add(neg_half_h, off))
  /\ F32Lt(lp.y, F32Add(F32Add(neg_half_h, F(70)), off))

in_translate_zone(lp, off) ==
  /\ F32Gt(lp.x, F(-65))
  /\ F32Lt(lp.x, F(65))
  /\ F32Gt(lp.y, F(-65))
  /\ F32Lt(lp.y, F(65))

in_scale_zone(lp, off) ==
  /\ F32Gt(lp.x, F32Sub(F32Sub(half_w, F(85)), off))
  /\ F32Lt(lp.x, F32Sub(F32Sub(half_w, F32Zero(0)), off))
  /\ F32Gt(lp.y, F32Sub(F32Sub(half_h, F(85)), off))
  /\ F32Lt(lp.y, F32Sub(F32Sub(half_h, F32Zero(0)), off))

in_delete_zone(lp, off) ==
  /\ F32Gt(lp.x, F32Add(neg_half_w, off))
  /\ F32Lt(lp.x, F32Add(F32Add(neg_half_w, F(50)), off))
  /\ F32Gt(lp.y, F32Add(neg_half_h, off))
  /\ F32Lt(lp.y, F32Add(F32Add(neg_half_h, F(50)), off))

\* The handle the else-if chain picks for a local position, or None.
hit_handle_off(lp, off) ==
  IF in_rotate_zone(lp, off) THEN "Rotate"
  ELSE IF in_translate_zone(lp, off) THEN "Translate"
  ELSE IF in_scale_zone(lp, off) THEN "Scale"
  ELSE IF in_delete_zone(lp, off) THEN "Delete"
  ELSE None

hit_handle(lp, sc) == hit_handle_off(lp, F32Div(F(15), sc))

\* mouse_input_handle grabbing on Held as well as on Pressed: C12_GrabEntry
\* fails with it.
mouse_input_handle_held(self, pos, mouse_state, h) ==
  [self EXCEPT
     !.controls_visible = TRUE,
     !.hovering = h,
     !.grabbing = IF mouse_state \in {"Pressed", "Held"}
                     /\ h \in {"Rotate", "Translate", "Scale"}
                  THEN h ELSE @,
     !.scale_start = IF mouse_state = "Pressed" /\ h = "Scale" THEN Some(pos) ELSE @,
     !.dead = IF mouse_state = "Pressed" /\ h = "Delete" THEN TRUE ELSE @]

\* mouse_input_handle with Delete entering a grab as the other handles do:
\* C13_DeletePress fails with it.
mouse_input_handle_delete_grabs(self, pos, mouse_state, h) ==
  [self EXCEPT
     !.controls_visible = TRUE,
     !.hovering = h,
     !.grabbing = IF mouse_state = "Pressed" /\ h # None THEN h ELSE @,
     !.scale_start = IF mouse_state = "Pressed" /\ h = "Scale" THEN Some(pos) ELSE @,
     !.dead = IF mouse_state = "Pressed" /\ h = "Delete" THEN TRUE ELSE @]

\* What the branch of handle h does to the object.
mouse_input_handle(self, pos, mouse_state, h) ==
  [self EXCEPT
     !.controls_visible = TRUE,
     !.hovering = h,
     !.grabbing = IF mouse_state = "Pressed" /\ h \in {"Rotate", "Translate", "Scale"}
                  THEN h ELSE @,
     !.scale_start = IF mouse_state = "Pressed" /\ h = "Scale" THEN Some(pos) ELSE @,
     !.dead = IF mouse_state = "Pressed" /\ h = "Delete" THEN TRUE ELSE @]

\* The branch of mouse_input taken inside the canvas with nothing grabbed.
mouse_input_hover(self, pos, local_pos, mouse_state) ==
  mouse_input_handle(self, pos, mouse_state, hit_handle(local_pos, self.transform.scale))

\* mouse_input with nothing grabbed, for the cursor's local position.
mouse_input_local(self, pos, local_pos, mouse_state) ==
  IF out_of_canvas(local_pos)
  THEN [obj |-> [self EXCEPT !.controls_visible = FALSE], ret |-> FALSE]
  ELSE [obj |-> mouse_input_hover(self, pos, local_pos, mouse_state), ret |-> TRUE]

\* ScreenTransform::mouse_input: the object after the call, and what it returns.
mouse_input(self, pos, mouse_state) ==
  IF self.grabbing # None THEN mouse_input_grabbing(self, pos, mouse_state)
  ELSE mouse_input_local(self, pos, apply_inverse(self.transform, pos), mouse_state)

\* ------------------------------------------------------------ main::World

\* Bound on the number of World::update calls explored.
MaxTicks == 3

\* Bound on the number of World::update calls explored by the event loop.
MaxDrawTicks == 2

\* The cursor positions the input source delivers (buffer pixels, main.rs
\* 134-138: integers inside the window), chosen on the handles and zones:
\* the spawn zone, the seed's centre, the drag target of the spec's scenario,
\* the seed's Delete, Scale and Rotate handles, and a point outside the seed's
\* canvas that a spawned object can cover.
Cursors == {<<50, 50>>, <<500, 500>>, <<550, 500>>, <<230, 230>>,
            <<810, 810>>, <<760, 760>>, <<500, 230>>}

MousePositions == {Some(c) : c \in Cursors} \cup {NoneV}

MouseClickState == {"Pressed", "Held", "Released", "Idle"}

EditMode == {"Dual", "Edit", "View"}

\* Values of rand::random::<f32>(), uniform in [0, 1): its two extremes,
\* 0 and 1 - 2^-24.
rand_min == F32Zero(0)
rand_max == [s |-> 0, m |-> 16777215, e |-> -24]

\* The four values one spawn draws (position x, position y, rotation, scale):
\* two draws that between them take every value to both ends of its range.
RandDraws == {<<rand_min, rand_min, rand_min, rand_max>>,
              <<rand_max, rand_max, rand_max, rand_min>>}

\* `Some((x as f32, y as f32))`
CursorVec(c) == Vec2New(F(c[1]), F(c[2]))

\* The struct literal of World::new and World::update.  id is a label of the
\* model (the order of creation) that no operation reads.
NewScreenTransform(position, rotation, scale, id) ==
  [transform |-> [position |-> position, rotation |-> rotation,
                  scale |-> scale, alpha |-> 240],
   hovering |-> None, grabbing |-> None, scale_start |-> NoneV,
   controls_visible |-> FALSE, dead |-> FALSE, id |-> id]

\* Vec::remove(i) and Vec::insert(i, x), i counted from 0.
VecRemove(v, i) == SubSeq(v, 1, i) \o SubSeq(v, i + 2, Len(v))
VecInsert(v, i, x) == SubSeq(v, 1, i) \o <<x>> \o SubSeq(v, i + 1, Len(v))

\* The dispatch loop of World::update from index i (counted from 0) on.
RECURSIVE dispatch(_, _, _, _, _)
RECURSIVE dispatch_input(_, _, _, _, _)
RECURSIVE dispatch_result(_, _, _, _, _, _)
\* dispatch_result without the break: C11_NoClickThrough fails with it.
dispatch_result_through(ts, i, dead_ones, mouse_pos, mouse_state, r) ==
  IF r.ret
  THEN [dispatch([ts EXCEPT ![i + 1] = r.obj], i + 1, dead_ones,
                 mouse_pos, mouse_state) EXCEPT !.first_one = Some(i)]
  ELSE dispatch([ts EXCEPT ![i + 1] = r.obj], i + 1, dead_ones, mouse_pos, mouse_state)

\* After transform.mouse_input returned r: break, or go on to the next object.
dispatch_result(ts, i, dead_ones, mouse_pos, mouse_state, r) ==
  IF r.ret
  THEN [transforms |-> [ts EXCEPT ![i + 1] = r.obj], first_one |-> Some(i),
        dead_ones |-> dead_ones]
  ELSE dispatch([ts EXCEPT ![i + 1] = r.obj], i + 1, dead_ones, mouse_pos, mouse_state)

\* `if let Some((x, y)) = mouse_pos { if transform.mouse_input(..) { .. } }`
dispatch_input(ts, i, dead_ones, mouse_pos, mouse_state) ==
  IF mouse_pos = NoneV THEN dispatch(ts, i + 1, dead_ones, mouse_pos, mouse_state)
  ELSE dispatch_result(ts, i, dead_ones, mouse_pos, mouse_state,
                       mouse_input(ts[i + 1], CursorVec(mouse_pos[1]), mouse_state))

\* dispatch recording each dead object one index too far: C20_NoPanic fails
\* with it.
dispatch_off_by_one(ts, i, dead_ones, mouse_pos, mouse_state) ==
  IF i >= Len(ts) THEN [transforms |-> ts, first_one |-> NoneV, dead_ones |-> dead_ones]
  ELSE dispatch_input(ts, i, IF ts[i + 1].dead THEN Append(dead_ones, i + 1) ELSE dead_ones,
                      mouse_pos, mouse_state)

dispatch(ts, i, dead_ones, mouse_pos, mouse_state) ==
  IF i >= Len(ts) THEN [transforms |-> ts, first_one |-> NoneV, dead_ones |-> dead_ones]
  ELSE dispatch_input(ts, i, IF ts[i + 1].dead THEN Append(dead_ones, i) ELSE dead_ones,
                      mouse_pos, mouse_state)

\* promote leaving the list in its order: C19_SingleGrabber fails with it.
promote_none(ts, first_one) == ts

\* `let top = self.transforms.remove(i); self.transforms.insert(0, top);`
promote(ts, first_one) ==
  IF first_one = NoneV THEN ts
  ELSE VecInsert(VecRemove(ts, first_one[1]), 0, ts[first_one[1] + 1])

\* `for dead_one in dead_ones { self.transforms.remove(dead_one); }`
\* Vec::remove panics on an index that is not below the length.
RECURSIVE remove_dead(_, _)
remove_dead(ts, dead_ones) ==
  IF dead_ones = <<>> THEN [transforms |-> ts, panicked |-> FALSE]
  ELSE IF Head(dead_ones) >= Len(ts) THEN [transforms |-> ts, panicked |-> TRUE]
  ELSE remove_dead(VecRemove(ts, Head(dead_ones)), Tail(dead_ones))

\* The spawn-zone test.
in_spawn_zone(c) == c[1] > 20 /\ c[1] < 80 /\ c[2] > 20 /\ c[2] < 80

world_hover(hovering, mouse_pos) ==
  IF mouse_pos = NoneV THEN hovering
  ELSE IF in_spawn_zone(mouse_pos[1]) THEN "Add" ELSE None

\* spawned without the -0.05 offset of the rotation: C6_Spawn fails with it.
spawned_unshifted(rx, ry, rr, rs, id) ==
  NewScreenTransform(
    Vec2New(F32Add(F32Sub(F32Div(width, F(2)),
                          F32Mul(rx, F(100))), F(50)),
            F32Add(F32Sub(F32Div(height, F(2)),
                          F32Mul(ry, F(100))), F(50))),
    F32Mul(rr, lit_0_1),
    F32Add(F32Mul(rs, lit_0_1), lit_0_495),
    id)

\* The object World::update pushes, from four values of rand::random.
spawned(rx, ry, rr, rs, id) ==
  NewScreenTransform(
    Vec2New(F32Add(F32Sub(F32Div(width, F(2)),
                          F32Mul(rx, F(100))), F(50)),
            F32Add(F32Sub(F32Div(height, F(2)),
                          F32Mul(ry, F(100))), F(50))),
    F32Sub(F32Mul(rr, lit_0_1), lit_0_05),
    F32Add(F32Mul(rs, lit_0_1), lit_0_495),
    id)

\* The end of World::update, after the removals r: the hover h, and the push
\* when spawn holds.
update_spawn(w, rnd, id, d, r, h, spawn) ==
  [transforms |-> IF r.panicked \/ ~spawn THEN r.transforms
                  ELSE Append(r.transforms,
                              spawned(rnd[1], rnd[2], rnd[3], rnd[4], id)),
   hovering |-> IF r.panicked THEN w.hovering ELSE h,
   panicked |-> r.panicked,
   first_one |-> d.first_one,
   dead_ones |-> d.dead_ones,
   dispatched |-> d.transforms,
   spawn |-> ~r.panicked /\ spawn]

update_hover(w, mouse_state, rnd, id, d, r, h) ==
  update_spawn(w, rnd, id, d, r, h, h # None /\ mouse_state = "Pressed")

\* World::update after its loop, which left d.
update_loop(w, mouse_pos, mouse_state, rnd, id, d) ==
  update_hover(w, mouse_state, rnd, id, d,
               remove_dead(promote(d.transforms, d.first_one), d.dead_ones),
               world_hover(w.hovering, mouse_pos))

\* World::update: the world after the call.  rnd is the four random values a
\* spawn draws; first_one, dead_ones and the list (dispatched) are reported as
\* the loop left them.
update(w, mouse_pos, mouse_state, rnd, id) ==
  update_loop(w, mouse_pos, mouse_state, rnd, id,
              dispatch(w.transforms, 0, <<>>, mouse_pos, mouse_state))

\* ------------------------------------------------------------------ state

VARIABLES
  transforms,   \* World.transforms
  hovering,     \* World.hovering
  panicked,     \* whether World::update has panicked (the process is gone)
  edit_mode,    \* main's edit_mode
  painted,      \* the objects (ids) the last World::draw painted, in paint order
  nextId,       \* the label of the next object created
  ticks,        \* the number of World::update calls so far
  last,         \* the last World::update call: its arguments and what its loop found
  scenario,     \* how many ticks of Scenario the calls so far have followed, or -1
  frame,        \* the frame buffer World::draw writes (pixels.get_frame())
  last_frame_buffer, \* main's last_frame_buffer
  draws,        \* the number of World::draw calls so far
  control_flow, \* the event loop's *control_flow: "Poll" or "Exit"
  redraw_requested, \* whether window.request_redraw() is pending
  grid,         \* the buffer of the PixelGrid a pixel-set call writes
  input,        \* the arguments drawn for a call of a pure function
  output        \* the call made with them and what it returned, or NoneV

vars == <<transforms, hovering, panicked, edit_mode, painted, nextId, ticks, last,
          scenario, frame, last_frame_buffer, draws, control_flow, redraw_requested,
          grid, input, output>>

\* The translate-drag scenario of the specification (section 8): press at the
\* centre, hold 50 pixels to the right, release there.
Scenario ==
  <<[mouse_pos |-> Some(<<WIDTH \div 2, HEIGHT \div 2>>), mouse_state |-> "Pressed"],
    [mouse_pos |-> Some(<<WIDTH \div 2 + 50, HEIGHT \div 2>>), mouse_state |-> "Held"],
    [mouse_pos |-> Some(<<WIDTH \div 2 + 50, HEIGHT \div 2>>), mouse_state |-> "Released"]>>

\* The scenario's progress after one more call.
scenario_step(k, mouse_pos, mouse_state) ==
  IF /\ k >= 0 /\ k < Len(Scenario)
     /\ Scenario[k + 1] = [mouse_pos |-> mouse_pos, mouse_state |-> mouse_state]
  THEN k + 1 ELSE -1

world_vars == <<transforms, hovering, edit_mode, painted, nextId, ticks, last, scenario,
                frame, last_frame_buffer, draws, control_flow, redraw_requested>>

\* A frame-sized buffer is named by the passes that wrote it.  The buffer of
\* zeros (`Box::new([0u8; ..])`, main.rs 72; the frame is written over before
\* it is read, main.rs 216):
ZeroBuffer == [pass |-> "zero"]

\* main's clear_buffer: green inside the middle fifth, grey elsewhere.
clear_buffer == [pass |-> "clear"]

\* Every field of World::new but the objects, and the history kept beside it.
WorldFields ==
  /\ hovering = None
  /\ panicked = FALSE
  /\ edit_mode = "Dual"
  /\ painted = <<>>
  /\ nextId = 1
  /\ ticks = 0
  /\ last = [mouse_pos |-> NoneV, mouse_state |-> "Idle", first_one |-> NoneV,
             dead_ones |-> <<>>, dispatched |-> <<>>, spawn |-> FALSE,
             before |-> <<>>]
  /\ scenario = 0
  /\ frame = ZeroBuffer
  /\ last_frame_buffer = ZeroBuffer
  /\ draws = 0
  /\ control_flow = "Poll"
  /\ redraw_requested = FALSE

\* The objects of World::new: the seed.
new_transforms ==
  <<NewScreenTransform(Vec2New(F32Div(width, F(2)), F32Div(height, F(2))),
                       F32Zero(0), lit_0_6, 0)>>

\* The world of World::new, which the pixel calls leave alone.
WorldInit ==
  /\ transforms = new_transforms
  /\ WorldFields

\* World::new, and main's locals before the event loop.
Init ==
  /\ WorldInit
  /\ grid = GridNew(0)
  /\ input = NoneV
  /\ output = NoneV

\* What one call world.update(mouse_pos, mouse_state) does to the world, while
\* fewer than bound calls have been made.
WorldUpdate(mouse_pos, mouse_state, bound) ==
  /\ ticks < bound
  /\ \E rnd \in IF world_hover(hovering, mouse_pos) # None /\ mouse_state = "Pressed"
                THEN RandDraws
                ELSE {<<rand_min, rand_min, rand_min, rand_min>>} :
       \E u \in {update([transforms |-> transforms, hovering |-> hovering],
                         mouse_pos, mouse_state, rnd, nextId)} :
           /\ transforms' = u.transforms
           /\ hovering' = u.hovering
           /\ panicked' = u.panicked
           /\ nextId' = IF u.spawn THEN nextId + 1 ELSE nextId
           /\ last' = [mouse_pos |-> mouse_pos, mouse_state |-> mouse_state,
                       first_one |-> u.first_one, dead_ones |-> u.dead_ones,
                       dispatched |-> u.dispatched,
                       spawn |-> u.spawn, before |-> transforms]
  /\ ticks' = ticks + 1
  /\ scenario' = scenario_step(scenario, mouse_pos, mouse_state)

\* One call world.update(mouse_pos, mouse_state) (main.rs 141-143).
Update(mouse_pos, mouse_state, bound) ==
  /\ ~panicked
  /\ edit_mode # "View"
  /\ WorldUpdate(mouse_pos, mouse_state, bound)
  /\ UNCHANGED <<edit_mode, painted, frame, last_frame_buffer, draws, control_flow,
                 redraw_requested, grid, input, output>>

Tick == \E mouse_pos \in MousePositions, mouse_state \in MouseClickState :
          Update(mouse_pos, mouse_state, MaxTicks)

Next == Tick

\* The world under any sequence of World::update calls.
Spec == Init /\ [][Next]_vars

\* The overlay pass of World::draw: the objects in the order it paints them
\* (each paint covers what was painted there before); none in View mode.
overlay_order(ts, mode) ==
  IF mode \in {"Dual", "Edit"} THEN [i \in 1..Len(ts) |-> ts[i].id] ELSE <<>>

\* Bound on the number of World::draw calls explored.
MaxDraws == 2

HOVERABLE_COLOR == <<166, 38, 57>>
HOVERING_COLOR == <<219, 50, 77>>

\* One more call of set_pixel_transformed made by the loop over the objects.
feedback_call(r, calls) ==
  [grid |-> r.grid, panicked |-> r.panicked, calls |-> calls + 1]

\* `for transform in &self.transforms { grid.set_pixel_transformed(..) }`
\* from the k-th object on; a panic ends the loop.
RECURSIVE feedback_through(_, _, _, _, _)
feedback_through(r, point, pixel, ts, k) ==
  IF k > Len(ts) \/ r.panicked THEN r
  ELSE feedback_through(
         feedback_call(set_pixel_transformed(r.grid, point, ts[k].transform, pixel),
                       r.calls),
         point, pixel, ts, k + 1)

\* The canvas point of the i-th pixel of the previous frame.
feedback_point(i) ==
  Vec2New(F32Sub(F(i % WIDTH), F32Div(width, F(2))),
          F32Sub(F(i \div WIDTH), F32Div(height, F(2))))

\* feedback_pixel skipping on the red byte 0x23 of the clear buffer's green:
\* C18_FeedbackSelection fails with it.
feedback_pixel_skips_green(g, i, pixel, ts) ==
  IF pixel[1] = 35 THEN [grid |-> g, panicked |-> FALSE, calls |-> 0]
  ELSE feedback_through([grid |-> g, panicked |-> FALSE, calls |-> 0],
                        feedback_point(i), pixel, ts, 1)

\* One iteration of the feedback loop of World::draw: the i-th pixel of the
\* previous frame, of colour pixel, onto the grid g.  `pixel[0] == 0xE3` reads
\* the red byte alone.  calls counts the set_pixel_transformed calls made.
feedback_pixel(g, i, pixel, ts) ==
  IF pixel[1] = 227 THEN [grid |-> g, panicked |-> FALSE, calls |-> 0]
  ELSE feedback_through([grid |-> g, panicked |-> FALSE, calls |-> 0],
                        feedback_point(i), pixel, ts, 1)

\* The feedback pass over the frame frm: every pixel of the previous frame
\* prev that the loop does not skip, composited through the transform of
\* every object of ts in turn (feedback_pixel is one iteration of it).
feedback_pass(frm, prev, ts) ==
  [pass |-> "feedback", under |-> frm, from |-> prev,
   through |-> [i \in 1..Len(ts) |-> ts[i].transform]]

\* The overlay pass over the frame frm: the cross of the spawn zone in
\* add_color, then the overlay of every object of ts in list order.
overlay_pass(frm, hov, ts) ==
  [pass |-> "overlay", under |-> frm,
   add_color |-> IF hov = "Add" THEN HOVERING_COLOR ELSE HOVERABLE_COLOR,
   objects |-> ts]

\* World::draw, pass by pass: the frame after the feedback pass (which starts
\* from a copy of clear_buffer), the previous-frame buffer after it, and the
\* frame after the overlay pass.
draw_feedback(mode, ts, prev) ==
  IF mode \in {"Dual", "View"} THEN feedback_pass(clear_buffer, prev, ts)
  ELSE clear_buffer

draw_snapshot(mode, frm, prev) ==
  IF mode \in {"Dual", "View"} THEN frm ELSE prev

draw_overlay(mode, frm, hov, ts) ==
  IF mode \in {"Dual", "Edit"} THEN overlay_pass(frm, hov, ts) ELSE frm

\* The callback on Event::RedrawRequested (main.rs 82-92): one call
\* world.draw(..., edit_mode), then pixels.render(), whose failure ends the
\* event loop; while fewer than MaxDraws calls have been made.
Draw ==
  /\ ~panicked
  /\ control_flow = "Poll"
  /\ draws < MaxDraws
  /\ draws' = draws + 1
  /\ painted' = overlay_order(transforms, edit_mode)
  /\ \E frm \in {draw_feedback(edit_mode, transforms, last_frame_buffer)} :
       /\ last_frame_buffer' = draw_snapshot(edit_mode, frm, last_frame_buffer)
       /\ frame' = draw_overlay(edit_mode, frm, hovering, transforms)
  /\ \E render_ok \in BOOLEAN : control_flow' = IF render_ok THEN "Poll" ELSE "Exit"
  /\ redraw_requested' = FALSE
  /\ UNCHANGED <<transforms, hovering, panicked, edit_mode, nextId, ticks, last,
                 scenario, grid, input, output>>

\* What one callback may carry of the keys Escape, 1, 2, 3 and the close
\* request: no key, one key, the close request, or the three mode keys at once.
KeyInputs ==
  {[keys |-> ks, quit |-> FALSE] : ks \in {{}, {"Escape"}, {"Key1"}, {"Key2"}, {"Key3"},
                                           {"Key1", "Key2", "Key3"}}}
    \cup {[keys |-> {}, quit |-> TRUE]}

\* The else-if chain of main.rs 111-117 on the keys pressed.
key_mode(keys, mode) ==
  IF "Key1" \in keys THEN "Dual"
  ELSE IF "Key2" \in keys THEN "Edit"
  ELSE IF "Key3" \in keys THEN "View"
  ELSE mode

\* The callback when input.update(&event) is true (main.rs 95-145): Escape or
\* the close request ends the event loop; otherwise the mode keys, then
\* world.update unless the mode is View, then window.request_redraw().
HandleInput(k, mouse_pos, mouse_state) ==
  /\ ~panicked
  /\ control_flow = "Poll"
  /\ IF "Escape" \in k.keys \/ k.quit
     THEN /\ control_flow' = "Exit"
          /\ UNCHANGED <<transforms, hovering, panicked, edit_mode, nextId, ticks, last,
                         scenario, redraw_requested>>
     ELSE /\ edit_mode' = key_mode(k.keys, edit_mode)
          /\ IF key_mode(k.keys, edit_mode) # "View"
             THEN WorldUpdate(mouse_pos, mouse_state, MaxDrawTicks)
             ELSE UNCHANGED <<transforms, hovering, panicked, nextId, ticks, last,
                              scenario>>
          /\ redraw_requested' = TRUE
          /\ control_flow' = "Poll"
  /\ UNCHANGED <<painted, frame, last_frame_buffer, draws, grid, input, output>>

InputEvent == \E k \in KeyInputs, mouse_pos \in MousePositions,
                 mouse_state \in MouseClickState :
                HandleInput(k, mouse_pos, mouse_state)

NextDraw == InputEvent \/ Draw

\* The event loop: input callbacks and redraws in any order.
SpecDraw == Init /\ [][NextDraw]_vars

\* ------------------------------------------------ pure-function calls

NewTransform(position, rotation, scale, alpha) ==
  [position |-> position, rotation |-> rotation, scale |-> scale, alpha |-> alpha]

\* Coordinates passed to the pixel-set calls: quarters of a pixel below, in and
\* beyond the buffer, the infinities and NaN.
PixelCoords ==
  {Lit(n, 4) : n \in {-22, -1, 0, 3, 1998, 3996, 3997, 4000, 40000}}
    \cup {F32NaN, F32Inf(0), F32Inf(1)}

PixelPoints == {Vec2New(x, y) : x, y \in PixelCoords}

\* Transforms of the pixel-set calls: the seed's, a spawned object's, and two
\* whose canvas reaches beyond the buffer.
PixelTransforms ==
  {NewTransform(Vec2New(F(500), F(500)), F32Zero(0), lit_0_6, 240),
   NewTransform(Vec2New(F(550), F(550)), F32Neg(lit_0_05), Lit(595, 1000), 240),
   NewTransform(Vec2New(F(230), F(810)), F32Zero(0), lit_1_0, 240),
   NewTransform(Vec2New(F(810), F(230)), PI, lit_1_0, 240)}

InitPixel ==
  /\ WorldInit
  /\ grid = GridNew(Grey[1])
  /\ input \in {Some([point |-> pt, transform |-> t, pixel |-> Green]) :
                  pt \in PixelPoints, t \in PixelTransforms}
  /\ output = NoneV

\* grid.set_pixel(point, pixel)
SetPixel ==
  /\ output = NoneV
  /\ \E r \in {set_pixel(grid, input[1].point, input[1].pixel)} :
       /\ grid' = r.grid
       /\ panicked' = r.panicked
  /\ output' = Some([call |-> "set_pixel", point |-> input[1].point])
  /\ UNCHANGED <<world_vars, input>>

\* grid.set_pixel_transformed(point, transform, pixel)
SetPixelTransformed ==
  /\ output = NoneV
  /\ \E r \in {set_pixel_transformed(grid, input[1].point, input[1].transform,
                                     input[1].pixel)} :
       /\ grid' = r.grid
       /\ panicked' = r.panicked
  /\ output' = Some([call |-> "set_pixel_transformed",
                     point |-> apply(input[1].transform, input[1].point)])
  /\ UNCHANGED <<world_vars, input>>

NextPixel == SetPixel \/ SetPixelTransformed

SpecPixel == InitPixel /\ [][NextPixel]_vars

\* Blending: every destination byte against every source byte, fully opaque
\* and fully transparent.
MaxByte == 255
Bytes == 0..MaxByte

InitBlend ==
  /\ WorldInit
  /\ \E d \in Bytes : grid = GridNew(d)
  /\ input \in {Some([point |-> Vec2New(F(0), F(0)),
                      transform |-> NewTransform(Vec2New(F(500), F(500)), F32Zero(0),
                                                 lit_0_6, a),
                      pixel |-> <<sb, sb, sb>>]) :
                  sb \in Bytes, a \in {0, MaxByte}}
  /\ output = NoneV

NextBlend == SetPixelTransformed

SpecBlend == InitBlend /\ [][NextBlend]_vars

\* Round trips through Transform::apply and Transform::apply_inverse: points on
\* the canvas, positions in the buffer and far outside it, and the rotations
\* the program assigns: the seed's, a spawn's, PI, and the angle of a Rotate
\* drag of the seed to every cursor, the one on the seed's own position (NaN)
\* included.
InverseRotations ==
  {F32Zero(0), F32Neg(lit_0_05), PI}
    \cup {rotate_angle(Vec2Sub(CursorVec(c), Vec2New(half_w, half_h))) : c \in Cursors}

InversePoints ==
  {Vec2New(x, y) : x \in {F(0), F(3), F(-500), Lit(3, 10)},
                   y \in {F(0), F(1), Lit(3, 10), F(-7), F(500)}}

InverseTransforms ==
  {NewTransform(Vec2New(px, py), r, sc, 240) :
     px \in {F(0), F(500)}, py \in {F(550), F(999), F32FromInt(100000)},
     r \in InverseRotations \cup {rotate_angle(Vec2New(F(50), F(50)))},
     sc \in {lit_0_1, lit_0_495, lit_0_6, lit_1_0}}

InitInverse ==
  /\ WorldInit
  /\ grid = GridNew(0)
  /\ input \in {Some([point |-> pt, transform |-> t]) :
                  pt \in InversePoints, t \in InverseTransforms}
  /\ output = NoneV

\* t.apply_inverse(t.apply(p))
RoundTrip ==
  /\ output = NoneV
  /\ \E q \in {apply(input[1].transform, input[1].point)} :
       output' = Some([call |-> "apply_inverse", point |-> q,
                       back |-> apply_inverse(input[1].transform, q)])
  /\ UNCHANGED <<world_vars, panicked, grid, input>>

NextInverse == RoundTrip

SpecInverse == InitInverse /\ [][NextInverse]_vars

\* Hit tests of mouse_input: local positions on, beside and between the four
\* hit rectangles, for the scales at the ends of the clamp's range, the seed's
\* and the ends of a spawn's range.
ZoneScales == {lit_0_1, lit_0_495, Lit(595, 1000), lit_0_6, lit_1_0}

ZoneCoords ==
  {F(n) : n \in {-500, -480, -440, -410, -340, -290, -86, -84, -66, -64, 0,
                 64, 66, 84, 86, 270, 340, 395, 450, 480, 500}}

InitZones ==
  /\ WorldInit
  /\ grid = GridNew(0)
  /\ input \in {Some([scale |-> sc, local_pos |-> Vec2New(x, y)]) :
                  sc \in ZoneScales, x \in ZoneCoords, y \in ZoneCoords}
  /\ output = NoneV

\* The else-if chain of mouse_input on a local position.
HitTest ==
  /\ output = NoneV
  /\ output' = Some([call |-> "hit_handle",
                     handle |-> hit_handle(input[1].local_pos, input[1].scale)])
  /\ UNCHANGED <<world_vars, panicked, grid, input>>

NextZones == HitTest

SpecZones == InitZones /\ [][NextZones]_vars

\* The feedback loop of World::draw, one previous-frame pixel at a time.
\* The previous frame starts as zeros (main.rs 72):
Black == <<0, 0, 0>>

\* The colours of the clear buffer, which every frame starts from.
ClearColours == {Grey, Green}

\* set_pixel_transformed on a destination colour d with the source colour s;
\* every object's alpha is 0xf0.
Blend3(d, s) ==
  <<blend(d[1], s[1], 240), blend(d[2], s[2], 240), blend(d[3], s[3], 240)>>

\* The destinations dests after one composite each, from the colours of srcs
\* that the loop does not skip.
composited(dests, srcs) ==
  {Blend3(d, s) : d \in dests, s \in {c \in srcs : c[1] # 227}}

\* Bound on the number of set_pixel_transformed calls that land on one pixel
\* of the frame in one feedback pass (several pixels of the previous frame,
\* through several objects, reach the same pixel).
MaxHits == 9

\* The colours reached from the clear buffer by at most n more composites:
\* done are the colours reached so far, frontier those of them reached by the
\* last composite (composites of the others are in done already).
RECURSIVE hit_colours(_, _, _, _)
RECURSIVE hit_next(_, _, _, _)
hit_next(done, new, srcs, n) == hit_colours(done \cup new, new, srcs, n - 1)

hit_colours(done, frontier, srcs, n) ==
  IF n = 0 \/ frontier = {} THEN done
  ELSE hit_next(done, composited(frontier, srcs) \ done, srcs, n)

\* The colours of a frame after its feedback pass over a previous frame of the
\* colours srcs: every pixel starts clear and is hit at most MaxHits times, by
\* any of the colours the loop does not skip.  Every colour the frame can hold
\* is among them.
frame_colours(srcs) == hit_colours(ClearColours, ClearColours, srcs, MaxHits)

\* Bound on the number of frames drawn before the one whose feedback pass is
\* explored.
MaxFrames == 2

\* The colours of the previous-frame buffer after at most k draws: zeros at
\* first, then the colours of a frame after its feedback pass.  Every colour
\* the buffer can hold is among them.
RECURSIVE PrevColours(_)
PrevColours(k) ==
  IF k = 0 THEN {Black}
  ELSE PrevColours(k - 1) \cup frame_colours(PrevColours(k - 1))

\* Pixels of the previous frame: the corners, the centre and one in between.
FeedbackIndices == {0, 250250, 500500, 999999}

\* The objects: the seed alone, and the seed with an object spawned by a
\* press in the spawn zone.
FeedbackWorlds ==
  {new_transforms}
    \cup {update([transforms |-> new_transforms, hovering |-> None],
                 Some(<<50, 50>>), "Pressed", rnd, 1).transforms : rnd \in RandDraws}

InitFeedback ==
  /\ transforms \in FeedbackWorlds
  /\ WorldFields
  /\ grid = GridClear
  /\ input \in {Some([i |-> i, pixel |-> c]) :
                  i \in FeedbackIndices, c \in PrevColours(MaxFrames)}
  /\ output = NoneV

\* The body of `for (i, pixel) in last_frame_buffer.chunks_exact_mut(4)`.
FeedbackPixel ==
  /\ output = NoneV
  /\ \E r \in {feedback_pixel(grid, input[1].i, input[1].pixel, transforms)} :
       /\ grid' = r.grid
       /\ panicked' = r.panicked
       /\ output' = Some([call |-> "feedback_pixel", calls |-> r.calls])
  /\ UNCHANGED <<world_vars, input>>

NextFeedback == FeedbackPixel

SpecFeedback == InitFeedback /\ [][NextFeedback]_vars

\* ------------------------------------------------------------- claims

Ids(ts) == {ts[i].id : i \in 1..Len(ts)}

\* The position of the object labelled id in ts (0 when it is not there).
IndexOf(ts, id) == IF id \in Ids(ts) THEN CHOOSE i \in 1..Len(ts) : ts[i].id = id ELSE 0

\* An update has just run.
Updated == ticks >= 1 /\ ~panicked

\* C1 (as claimed): an object whose Delete handle was pressed (dead before the
\* call) is gone after the next World::update, whatever its cursor and
\* click-state, and every other object that was in the list is still in it.
C1_DeadRemoved ==
  Updated =>
    \A i \in 1..Len(last.before) :
      last.before[i].dead =>
        /\ last.before[i].id \notin Ids(transforms)
        /\ \A j \in 1..Len(last.before) :
             j # i => last.before[j].id \in Ids(transforms)

\* C2 (as claimed): the first object whose mouse_input returned true (and that
\* was not already marked dead) is at index 0 after the update, and the other
\* surviving objects keep their relative order.
C2_FrontPromotion ==
  (Updated /\ last.first_one # NoneV) =>
    LET c == last.before[last.first_one[1] + 1]
    IN  ~c.dead =>
          /\ Len(transforms) >= 1
          /\ transforms[1].id = c.id
          /\ \A a, b \in (Ids(last.before) \cap Ids(transforms)) \ {c.id} :
               IndexOf(last.before, a) < IndexOf(last.before, b)
                 => IndexOf(transforms, a) < IndexOf(transforms, b)

\* C3 (as claimed): the overlay pass of World::draw paints the object at index
\* 0 of the list, the front, last.
C3_FrontDrawnLast ==
  [][Draw => (painted' = <<>> \/ painted'[Len(painted')] = transforms[1].id)]_vars

\* C4: from World::new, a Pressed tick at the centre grabs the seed's
\* Translate handle, a Held tick 50 pixels to the right moves the seed's
\* position to (WIDTH/2 + 50, HEIGHT/2), and a Released tick there clears the
\* grab and leaves the position where the drag put it.
C4_TranslateDrag ==
  (scenario >= 1 /\ ~panicked) =>
    /\ Len(transforms) = 1
    /\ last.first_one = Some(0)
    /\ scenario = 1 =>
         /\ transforms[1].grabbing = "Translate"
         /\ transforms[1].transform.position = Vec2New(F(WIDTH \div 2), F(HEIGHT \div 2))
    /\ scenario = 2 =>
         /\ transforms[1].grabbing = "Translate"
         /\ transforms[1].transform.position = Vec2New(F(WIDTH \div 2 + 50), F(HEIGHT \div 2))
    /\ scenario = 3 =>
         /\ transforms[1].grabbing = "None"
         /\ transforms[1].transform.position = Vec2New(F(WIDTH \div 2 + 50), F(HEIGHT \div 2))

\* The whole scenario has run.
C4_Witness == scenario = 3 /\ ticks = 3 /\ ~panicked

\* C5 (as claimed): after an update whose click-state is Released, with or
\* without a cursor, no object has a grabbed handle.
C5_ReleasedClearsGrab ==
  (Updated /\ last.mouse_state = "Released") =>
    \A i \in 1..Len(transforms) : transforms[i].grabbing = "None"

\* C6: a Pressed tick with the cursor in the spawn zone appends exactly one new
\* object at the end of the list, with scale in [0.495, 0.595], rotation in
\* [-0.05, 0.05], position within 50 pixels of the centre on each axis, no
\* hover, no grab, controls hidden and not dead; the objects before it are
\* objects that were already there.
C6_Spawn ==
  (/\ Updated
   /\ last.mouse_state = "Pressed"
   /\ last.mouse_pos # NoneV
   /\ last.mouse_pos[1][1] > 20 /\ last.mouse_pos[1][1] < 80
   /\ last.mouse_pos[1][2] > 20 /\ last.mouse_pos[1][2] < 80) =>
    /\ Len(transforms) = Len(last.before) - Len(last.dead_ones) + 1
    /\ LET new == transforms[Len(transforms)]
       IN  /\ new.id \notin Ids(last.before)
           /\ \A i \in 1..(Len(transforms) - 1) : transforms[i].id \in Ids(last.before)
           /\ F32Ge(new.transform.scale, Lit(495, 1000))
           /\ F32Le(new.transform.scale, Lit(595, 1000))
           /\ F32Ge(new.transform.rotation, F32Neg(Lit(5, 100)))
           /\ F32Le(new.transform.rotation, Lit(5, 100))
           /\ F32Ge(new.transform.position.x, F(WIDTH \div 2 - 50))
           /\ F32Le(new.transform.position.x, F(WIDTH \div 2 + 50))
           /\ F32Ge(new.transform.position.y, F(HEIGHT \div 2 - 50))
           /\ F32Le(new.transform.position.y, F(HEIGHT \div 2 + 50))
           /\ new.hovering = "None"
           /\ new.grabbing = "None"
           /\ ~new.controls_visible
           /\ ~new.dead

\* A spawn happened next to two objects already in the list, with the largest
\* random draw for the scale.
C6_Witness ==
  /\ Updated /\ last.spawn /\ last.mouse_state = "Pressed"
  /\ last.mouse_pos = Some(<<50, 50>>)
  /\ Len(last.before) = 2 /\ Len(transforms) = 3
  /\ transforms[3].transform.scale = Lit(595, 1000)

\* C7: every object's scale is at least 0.1 and at most 1.0 (so never zero) in
\* every reachable state.
C7_ScaleRange ==
  \A i \in 1..Len(transforms) :
    /\ F32Ge(transforms[i].transform.scale, Lit(1, 10))
    /\ F32Le(transforms[i].transform.scale, F(1))
    /\ ~IsZero(transforms[i].transform.scale)

\* A Scale drag to the object's own centre (distance 0) has been clamped to 0.1.
C7_Witness ==
  /\ Updated
  /\ \E i \in 1..Len(last.before) :
       /\ last.before[i].grabbing = "Scale"
       /\ last.mouse_pos = Some(<<500, 500>>)
       /\ last.before[i].transform.position = Vec2New(F(500), F(500))
       /\ last.first_one = Some(i - 1)
  /\ transforms[1].transform.scale = Lit(1, 10)

\* The least index written to the grid.
FirstWritten == CHOOSE i \in DOMAIN grid.written : \A j \in DOMAIN grid.written : i <= j

\* k is the column (or row) nearest to the coordinate v within 0..max: 0 below
\* the buffer, max beyond it, the pixel holding v inside it.  NaN has no
\* nearest pixel.
Nearest(v, k, max) ==
  \/ IsNaN(v) /\ k \in 0..max
  \/ F32Lt(v, F(0)) /\ k = 0
  \/ F32Gt(v, F(max)) /\ k = max
  \/ F32Le(F(k), v) /\ F32Lt(v, F(k + 1)) /\ k \in 0..max

\* C8: after set_pixel(point, ..) or set_pixel_transformed(point, t, ..) the
\* call has not panicked, the bytes written are the three colour bytes of the
\* pixel nearest to the point (to t.apply(point)) within
\* [0, WIDTH-1] x [0, HEIGHT-1], and every index written is below
\* WIDTH * HEIGHT * 4; set_pixel writes the colour it was given.
C8_Clamp ==
  (output # NoneV /\ output[1].call \in {"set_pixel", "set_pixel_transformed"}) =>
    /\ ~panicked
    /\ DOMAIN grid.written # {}
    /\ LET i == FirstWritten
           x == (i \div 4) % WIDTH
           y == (i \div 4) \div WIDTH
       IN  /\ i % 4 = 0
           /\ DOMAIN grid.written = {i, i + 1, i + 2}
           /\ Nearest(output[1].point.x, x, WIDTH - 1)
           /\ Nearest(output[1].point.y, y, HEIGHT - 1)
           /\ output[1].call = "set_pixel" =>
                \A c \in 0..2 : grid.written[i + c] = input[1].pixel[c + 1]
    /\ \A i \in DOMAIN grid.written : i >= 0 /\ i < WIDTH * HEIGHT * 4

\* set_pixel_transformed of a point that apply puts right of the buffer and
\* above it has written the top-right pixel.
C8_Witness ==
  /\ output # NoneV
  /\ output[1].call = "set_pixel_transformed"
  /\ F32Gt(output[1].point.x, F(WIDTH - 1))
  /\ F32Lt(output[1].point.y, F(0))
  /\ DOMAIN grid.written = {(WIDTH - 1) * 4, (WIDTH - 1) * 4 + 1, (WIDTH - 1) * 4 + 2}

\* C9: set_pixel_transformed with alpha 255 leaves each of the three channels
\* equal to the source byte, and with alpha 0 equal to the destination byte
\* that was there.
C9_BlendIdentity ==
  (output # NoneV /\ output[1].call = "set_pixel_transformed" /\ ~panicked) =>
    \A c \in 0..2 :
      /\ input[1].transform.alpha = 255 =>
           GridGet(grid, FirstWritten + c) = input[1].pixel[c + 1]
      /\ input[1].transform.alpha = 0 =>
           GridGet(grid, FirstWritten + c) = grid.fill

\* A fully opaque blend of source byte 200 over destination byte 17.
C9_Witness ==
  /\ output # NoneV
  /\ output[1].call = "set_pixel_transformed"
  /\ input[1].transform.alpha = 255
  /\ grid.fill = 17
  /\ input[1].pixel = <<200, 200, 200>>
  /\ grid.written[FirstWritten] = 200

F32Abs(a) == IF IsNaN(a) THEN a ELSE [a EXCEPT !.s = 0]

\* |a - b| <= tol, computed in f32.
Within(a, b, tol) == F32Le(F32Abs(F32Sub(a, b)), tol)

\* C10 (as claimed): t.apply_inverse(t.apply(p)) is within 1e-4 of p on both
\* axes, for every point and every transform with a scale that is not zero.
C10_InverseTight ==
  (output # NoneV /\ output[1].call = "apply_inverse") =>
    /\ Within(output[1].back.x, input[1].point.x, Lit(1, 10000))
    /\ Within(output[1].back.y, input[1].point.y, Lit(1, 10000))

\* The point lies on the canvas, the position in the buffer and the scale in
\* [0.1, 1.0], and the rotation is a finite number.
OnCanvas(pt, t) ==
  /\ IsFinite(t.rotation)
  /\ F32Le(F32Abs(pt.x), half_w) /\ F32Le(F32Abs(pt.y), half_h)
  /\ F32Ge(t.position.x, F(0)) /\ F32Le(t.position.x, width)
  /\ F32Ge(t.position.y, F(0)) /\ F32Le(t.position.y, height)
  /\ F32Ge(t.scale, lit_0_1) /\ F32Le(t.scale, lit_1_0)

\* C10 (amended): for a point on the canvas and a transform with a finite
\* rotation, its position in the buffer and its scale in [0.1, 1.0],
\* t.apply_inverse(t.apply(p)) is within 1e-2 of p on both axes; with a NaN
\* rotation both coordinates of the round trip are NaN.
C10_Inverse ==
  (output # NoneV /\ output[1].call = "apply_inverse") =>
    /\ OnCanvas(input[1].point, input[1].transform) =>
         /\ Within(output[1].back.x, input[1].point.x, Lit(1, 100))
         /\ Within(output[1].back.y, input[1].point.y, Lit(1, 100))
    /\ IsNaN(input[1].transform.rotation) =>
         IsNaN(output[1].back.x) /\ IsNaN(output[1].back.y)

\* A round trip at scale 0.1 that comes back more than 1e-4 away from the
\* point, and less than 1e-2.
C10_Witness ==
  /\ output # NoneV /\ output[1].call = "apply_inverse"
  /\ OnCanvas(input[1].point, input[1].transform)
  /\ input[1].transform.scale = lit_0_1
  /\ ~Within(output[1].back.y, input[1].point.y, Lit(1, 10000))
  /\ Within(output[1].back.y, input[1].point.y, Lit(1, 100))

\* The local position lies inside the canvas bounds.
InsideCanvas(lp) == F32Le(F32Abs(lp.x), half_w) /\ F32Le(F32Abs(lp.y), half_h)

\* The cursor of the last call in the local space of the transform t.
LastLocal(t) == apply_inverse(t, CursorVec(last.mouse_pos[1]))

\* The dispatch loop of the last call reached the object at index j (from 1).
Called(j) ==
  /\ last.mouse_pos # NoneV
  /\ last.first_one = NoneV \/ j <= last.first_one[1] + 1

\* C11: in a World::update, every object behind the first one whose
\* mouse_input returned true is, when the dispatch loop ends, exactly as it
\* was before the call; and an object the loop calls with the cursor's local
\* position inside its canvas bounds returns true (it is first_one), whether
\* or not a handle is hit.
C11_NoClickThrough ==
  Updated =>
    /\ Len(last.dispatched) = Len(last.before)
    /\ \A j \in 1..Len(last.before) :
         /\ (last.first_one # NoneV /\ j > last.first_one[1] + 1)
              => last.dispatched[j] = last.before[j]
         /\ (Called(j) /\ InsideCanvas(LastLocal(last.before[j].transform)))
              => last.first_one = Some(j - 1)

\* The front object consumed a cursor over empty space of its canvas (no
\* handle hit), and the object behind it, whose canvas also holds the cursor
\* and which mouse_input would have changed, is as it was.
C11_Witness ==
  /\ Updated /\ last.mouse_pos # NoneV
  /\ Len(last.before) = 2
  /\ last.first_one = Some(0)
  /\ last.dispatched[1].hovering = None /\ last.dispatched[1].grabbing = None
  /\ InsideCanvas(LastLocal(last.before[2].transform))
  /\ mouse_input(last.before[2], CursorVec(last.mouse_pos[1]), last.mouse_state).obj
       # last.before[2]
  /\ last.dispatched[2] = last.before[2]

\* The hit rectangle of handle h holds the local position lp of an object of
\* scale sc.
InZone(h, lp, sc) ==
  CASE h = "Rotate" -> in_rotate_zone(lp, F32Div(F(15), sc))
    [] h = "Translate" -> in_translate_zone(lp, F32Div(F(15), sc))
    [] h = "Scale" -> in_scale_zone(lp, F32Div(F(15), sc))
    [] h = "Delete" -> in_delete_zone(lp, F32Div(F(15), sc))
    [] OTHER -> FALSE

\* C12: an object's grabbed handle goes from none to h only in a Pressed call
\* with the cursor's local position inside h's hit rectangle, and that call
\* sets the object's hover to h; h is Rotate, Translate or Scale; an object
\* that has a grabbed handle h keeps h or loses the grab, and its hover is
\* none or h, never another handle.
C12_GrabEntry ==
  /\ \A i \in 1..Len(transforms) :
       /\ transforms[i].grabbing \in {None, "Rotate", "Translate", "Scale"}
       /\ transforms[i].grabbing # None
            => transforms[i].hovering \in {None, transforms[i].grabbing}
  /\ Updated =>
       \A j \in 1..Len(last.before) :
         /\ (last.before[j].grabbing = None /\ last.dispatched[j].grabbing # None) =>
              /\ last.mouse_state = "Pressed"
              /\ last.mouse_pos # NoneV
              /\ last.dispatched[j].grabbing \in {"Rotate", "Translate", "Scale"}
              /\ InZone(last.dispatched[j].grabbing,
                        LastLocal(last.before[j].transform),
                        last.before[j].transform.scale)
              /\ last.dispatched[j].hovering = last.dispatched[j].grabbing
         /\ last.before[j].grabbing # None =>
              /\ last.dispatched[j].grabbing \in {None, last.before[j].grabbing}
              /\ last.dispatched[j].hovering \in {None, last.before[j].grabbing}

\* A press on the Scale handle has grabbed it, and a later call left the grab
\* and the handle as they were.
C12_Witness ==
  /\ Updated /\ ticks >= 2
  /\ \E j \in 1..Len(last.before) :
       /\ last.before[j].grabbing = "Scale"
       /\ last.before[j].hovering = "Scale"
       /\ last.first_one = Some(j - 1)
       /\ last.dispatched[j].grabbing = "Scale"
       /\ last.dispatched[j].hovering = None

\* C13: a Pressed call that the dispatch loop delivers to an object with no
\* grabbed handle, with the cursor's local position in the Delete hit
\* rectangle, sets the object's dead flag in that same call, sets its hover to
\* Delete and gives it no grabbed handle; and no call turns a dead flag back
\* to false, neither in the loop nor in what is left in the list afterwards.
C13_DeletePress ==
  Updated =>
    /\ \A j \in 1..Len(last.before) :
         /\ (/\ Called(j)
             /\ last.mouse_state = "Pressed"
             /\ last.before[j].grabbing = None
             /\ InZone("Delete", LastLocal(last.before[j].transform),
                       last.before[j].transform.scale)) =>
              /\ last.dispatched[j].dead
              /\ last.dispatched[j].hovering = "Delete"
              /\ last.dispatched[j].grabbing = None
         /\ last.before[j].dead => last.dispatched[j].dead
    /\ \A j \in 1..Len(last.before), k \in 1..Len(transforms) :
         (last.before[j].id = transforms[k].id /\ last.before[j].dead)
           => transforms[k].dead

\* A press on the Delete handle of an object that was not dead has marked it
\* dead, with a second object in the list.
C13_Witness ==
  /\ Updated /\ last.mouse_state = "Pressed"
  /\ Len(last.before) = 2
  /\ \E j \in 1..Len(last.before) :
       /\ Called(j)
       /\ InZone("Delete", LastLocal(last.before[j].transform),
                 last.before[j].transform.scale)
       /\ ~last.before[j].dead
       /\ last.dispatched[j].dead
       /\ last.dispatched[j].hovering = "Delete"
       /\ last.first_one = Some(j - 1)

\* C14 (as claimed): after an update, an object's controls_visible is true
\* only if the call carried a cursor and that cursor, mapped by the object's
\* apply_inverse, lies inside the canvas bounds; ticks with no cursor and
\* ticks that drag the object by a handle included.
C14_ControlsVisible ==
  Updated =>
    \A i \in 1..Len(transforms) :
      transforms[i].controls_visible =>
        /\ last.mouse_pos # NoneV
        /\ InsideCanvas(LastLocal(transforms[i].transform))

\* enum Hoverables
Hoverables == {"Rotate", "Translate", "Scale", "Alpha", "Delete"}

\* C15: for every scale in [0.1, 1.0] no local position lies in the hit
\* rectangles of two different handles among Rotate, Translate, Scale and
\* Delete, so the handle the else-if chain picks is the only one whose
\* rectangle holds the position (none when no rectangle does).
C15_ZonesDisjoint ==
  (output # NoneV /\ output[1].call = "hit_handle") =>
    /\ \A h1, h2 \in Hoverables :
         (/\ InZone(h1, input[1].local_pos, input[1].scale)
          /\ InZone(h2, input[1].local_pos, input[1].scale)) => h1 = h2
    /\ \A h \in Hoverables :
         InZone(h, input[1].local_pos, input[1].scale) <=> output[1].handle = h

\* At scale 0.1, where the Rotate and Delete rectangles lie furthest inside
\* the canvas, a position in the Delete rectangle has been hit-tested.
C15_Witness ==
  /\ output # NoneV /\ output[1].call = "hit_handle"
  /\ input[1].scale = lit_0_1
  /\ input[1].local_pos = Vec2New(F(-340), F(-340))
  /\ output[1].handle = "Delete"

\* The last call carried a cursor inside the spawn-zone rectangle
\* [20,80] x [20,80].
LastInSpawnRect ==
  /\ last.mouse_pos # NoneV
  /\ last.mouse_pos[1][1] >= 20 /\ last.mouse_pos[1][1] <= 80
  /\ last.mouse_pos[1][2] >= 20 /\ last.mouse_pos[1][2] <= 80

\* C16 (as claimed): after every World::update the world's hovering is Add
\* exactly when that call's cursor is inside the spawn zone, and none
\* otherwise, a call with no cursor included; so an object is spawned only by
\* a Pressed call whose own cursor is inside the zone.
C16_SpawnHover ==
  Updated =>
    /\ hovering = "Add" <=> LastInSpawnRect
    /\ last.spawn => (last.mouse_state = "Pressed" /\ LastInSpawnRect)

\* C19: in every reachable state at most one object has a grabbed handle, and
\* that object is at index 0 of the list; so a call that carries a cursor is
\* consumed by it.
C19_SingleGrabber ==
  /\ \A i \in 1..Len(transforms) : transforms[i].grabbing # None => i = 1
  /\ (Updated /\ last.mouse_pos # NoneV) =>
       \A j \in 1..Len(last.before) :
         last.before[j].grabbing # None => (j = 1 /\ last.first_one = Some(0))

\* A press on a handle of the object behind has grabbed it and brought it to
\* index 0, in front of the object that was there.
C19_Witness ==
  /\ Updated /\ Len(transforms) >= 2
  /\ last.first_one = Some(1)
  /\ last.before[2].grabbing = None
  /\ transforms[1].id = last.before[2].id
  /\ transforms[1].grabbing # None

\* C20: World::update never panics: every index in dead_ones is below the
\* length of the list when Vec::remove is called with it; and at the start of
\* every call at most one object is dead, at index 0.
C20_NoPanic ==
  /\ ~panicked
  /\ \A i \in 1..Len(transforms) : transforms[i].dead => i = 1
  /\ ticks >= 1 =>
       \A k \in 1..Len(last.dead_ones) :
         last.dead_ones[k] < Len(last.before) - (k - 1)

\* A call has removed by the index recorded for a dead object after the
\* promotion moved another object to the front.
C20_Witness ==
  /\ Updated
  /\ last.dead_ones = <<0>>
  /\ last.first_one = Some(1)
  /\ Len(transforms) = Len(last.before) - 1

\* The buffer buf was written by the pass p, or lies over one that was.
RECURSIVE HasPass(_, _)
HasPass(buf, p) ==
  \/ buf.pass = p
  \/ "under" \in DOMAIN buf /\ HasPass(buf.under, p)

\* C17 (as claimed): after World::draw in Dual mode the previous-frame buffer
\* equals the finished frame of that draw, feedback pass and overlay pass; in
\* Edit mode the frame has no feedback pass, and in View mode no overlay
\* pass.
C17_Snapshot ==
  [][Draw => /\ edit_mode = "Dual" => last_frame_buffer' = frame'
             /\ edit_mode = "Edit" => ~HasPass(frame', "feedback")
             /\ edit_mode = "View" => ~HasPass(frame', "overlay")]_vars

\* C18: in the feedback pass a pixel of the previous frame is composited if
\* and only if its colour is not the background colour (0xE3, 0xE3, 0xE3): a
\* background pixel makes no set_pixel_transformed call and leaves the frame
\* as it was, every other pixel makes one call per object.
C18_FeedbackSelection ==
  (output # NoneV /\ output[1].call = "feedback_pixel") =>
    /\ (output[1].calls > 0) <=> (input[1].pixel # Grey)
    /\ input[1].pixel # Grey => output[1].calls = Len(transforms)
    /\ input[1].pixel = Grey => output[1].calls = 0 /\ grid = GridClear

\* A colour left by two composites, composited through two objects.
C18_Witness ==
  /\ output # NoneV
  /\ output[1].call = "feedback_pixel"
  /\ input[1].pixel \notin ClearColours \cup {Black}
  /\ Len(transforms) = 2
  /\ output[1].calls = 2
  /\ grid # GridClear

\* C21 (as claimed): after any sequence of World::update calls, a Rotate drag
\* to the object's own position included, the rotation of every live object
\* is a finite number.
C21_RotationFinite ==
  \A i \in 1..Len(transforms) :
    ~transforms[i].dead => IsFinite(transforms[i].transform.rotation)

=============================================================================
